---- MODULE Spec2Model ----
(***************************************************************************)
(* Tweet sentiment pipeline: prepare_data.py (Sampler),                     *)
(* analyze_sentiment.py (Classifier) and app.py (Dashboard).                *)
(*                                                                         *)
(* Strings are sequences of one-character strings, so that trimming,       *)
(* truncation, regular-expression substitution and case conversion are     *)
(* computed character by character as the library calls compute them.      *)
(* A missing cell (pandas NaN) of a string column is Null; a missing       *)
(* timestamp (NaT) is NaT; a present timestamp is <<year, month, day>>.     *)
(***************************************************************************)
EXTENDS Integers, Sequences, FiniteSets

VARIABLES
    fs,             \* working directory: relative path -> CSV file, or NoFile
    ran,            \* stages that have run to their end, in order
    reads,          \* per stage, the path of the file it last read
    writes,         \* per stage, the path of the file it last wrote
    cls,            \* Classifier process: pc, the file rows it read, its DataFrame, labels so far
    calls,          \* log of the calls made to the external sentiment service
    cache,          \* st.cache_data entry of load_data(), or NoCache
    disk_reads,     \* number of times the Dashboard read its CSV from disk
    runs,           \* number of Dashboard script runs (user interactions)
    ui              \* what the last Dashboard script run computed and showed

vars == <<fs, ran, reads, writes, cls, calls, cache, disk_reads, runs, ui>>

----------------------------------------------------------------------------
(* Characters and strings *)

LowerSeq ==
    <<"a","b","c","d","e","f","g","h","i","j","k","l","m",
      "n","o","p","q","r","s","t","u","v","w","x","y","z">>

UpperSeq ==
    <<"A","B","C","D","E","F","G","H","I","J","K","L","M",
      "N","O","P","Q","R","S","T","U","V","W","X","Y","Z">>

DigitSeq == <<"0","1","2","3","4","5","6","7","8","9">>

Range(s) == { s[i] : i \in DOMAIN s }

IsLower(c) == c \in Range(LowerSeq)
IsUpper(c) == c \in Range(UpperSeq)
IsAlpha(c) == IsLower(c) \/ IsUpper(c)
IsDigit(c) == c \in Range(DigitSeq)
IsSpace(c) == c \in {" ", "\t", "\n"}
\* regular-expression class \w
IsWordChar(c) == IsAlpha(c) \/ IsDigit(c) \/ c = "_"

IndexIn(seq, c) == CHOOSE i \in DOMAIN seq : seq[i] = c

Lower(c) == IF IsUpper(c) THEN LowerSeq[IndexIn(UpperSeq, c)] ELSE c
Upper(c) == IF IsLower(c) THEN UpperSeq[IndexIn(LowerSeq, c)] ELSE c

\* str.lower()
LowerStr(s) == [i \in DOMAIN s |-> Lower(s[i])]

\* str.capitalize(): first character upper-cased, the rest lower-cased
Capitalize(s) == [i \in DOMAIN s |-> IF i = 1 THEN Upper(s[i]) ELSE Lower(s[i])]

\* str.title(): a letter is upper-cased when the character before it is not
\* a letter, lower-cased otherwise
Title(s) ==
    [i \in DOMAIN s |->
        IF i = 1 \/ ~IsAlpha(s[i - 1]) THEN Upper(s[i]) ELSE Lower(s[i])]

\* str.strip()
RECURSIVE LStrip(_)
LStrip(s) == IF s # <<>> /\ IsSpace(Head(s)) THEN LStrip(Tail(s)) ELSE s

RECURSIVE RStrip(_)
RStrip(s) ==
    IF s # <<>> /\ IsSpace(s[Len(s)]) THEN RStrip(SubSeq(s, 1, Len(s) - 1)) ELSE s

Strip(s) == RStrip(LStrip(s))

\* str.split(): the maximal runs of non-whitespace characters
RECURSIVE SplitFrom(_, _, _)
SplitFrom(s, i, cur) ==
    IF i > Len(s) THEN (IF cur = <<>> THEN <<>> ELSE <<cur>>)
    ELSE IF IsSpace(s[i])
         THEN (IF cur = <<>> THEN <<>> ELSE <<cur>>) \o SplitFrom(s, i + 1, <<>>)
         ELSE SplitFrom(s, i + 1, Append(cur, s[i]))

Split(s) == SplitFrom(s, 1, <<>>)

\* sep.join(parts)
RECURSIVE Join(_, _)
Join(sep, parts) ==
    IF parts = <<>> THEN <<>>
    ELSE IF Len(parts) = 1 THEN parts[1]
    ELSE parts[1] \o sep \o Join(sep, Tail(parts))

\* s[i:] starts with the literal p
StartsAt(s, i, p) ==
    /\ i + Len(p) - 1 <= Len(s)
    /\ \A k \in 1..Len(p) : s[i + k - 1] = p[k]

\* the same, ignoring case (re.IGNORECASE)
StartsAtNoCase(s, i, p) ==
    /\ i + Len(p) - 1 <= Len(s)
    /\ \A k \in 1..Len(p) : Lower(s[i + k - 1]) = Lower(p[k])

----------------------------------------------------------------------------
(* Cells, CSV files and timestamps *)

Null == <<"<NaN>">>
NaT == <<>>

\* the strings pandas.read_csv turns into NaN by default
NaTokens ==
    { <<>>, <<"N","A">>, <<"N","/","A">>, <<"n","/","a">>, <<"N","a","N">>,
      <<"n","a","n">>, <<"N","U","L","L">>, <<"n","u","l","l">>,
      <<"N","o","n","e">>, <<"#","N","/","A">>, <<"#","N","A">>,
      <<"<","N","A",">">>, <<"-","N","a","N">>, <<"-","n","a","n">> }

\* pandas.read_csv on one string field
ReadCell(c) == IF c \in NaTokens THEN Null ELSE c

\* DataFrame.to_csv on one string cell
WriteCell(v) == IF v = Null THEN <<>> ELSE v

DigitVal(c) == IndexIn(DigitSeq, c) - 1

RECURSIVE ParseNat(_)
ParseNat(s) ==
    IF s = <<>> THEN 0 ELSE 10 * ParseNat(SubSeq(s, 1, Len(s) - 1)) + DigitVal(s[Len(s)])

IsLeap(y) == (y % 4 = 0 /\ y % 100 # 0) \/ y % 400 = 0

DaysInMonth(y, m) ==
    IF m \in {4, 6, 9, 11} THEN 30
    ELSE IF m = 2 THEN (IF IsLeap(y) THEN 29 ELSE 28)
    ELSE 31

IsIsoDate(s) ==
    /\ Len(s) = 10
    /\ s[5] = "-" /\ s[8] = "-"
    /\ \A i \in {1, 2, 3, 4, 6, 7, 9, 10} : IsDigit(s[i])
    /\ ParseNat(SubSeq(s, 6, 7)) \in 1..12
    /\ ParseNat(SubSeq(s, 9, 10)) \in
           1..DaysInMonth(ParseNat(SubSeq(s, 1, 4)), ParseNat(SubSeq(s, 6, 7)))

\* pd.to_datetime(column, errors="coerce") on one cell: a value that does not
\* parse (or is missing) becomes NaT
ToDatetime(c) ==
    IF c # Null /\ IsIsoDate(c)
    THEN <<ParseNat(SubSeq(c, 1, 4)), ParseNat(SubSeq(c, 6, 7)), ParseNat(SubSeq(c, 9, 10))>>
    ELSE NaT

RECURSIVE FormatNat(_, _)
FormatNat(n, width) ==
    IF width = 0 THEN <<>>
    ELSE Append(FormatNat(n \div 10, width - 1), DigitSeq[(n % 10) + 1])

\* DataFrame.to_csv on one timestamp cell
WriteDate(t) ==
    IF t = NaT THEN <<>>
    ELSE FormatNat(t[1], 4) \o <<"-">> \o FormatNat(t[2], 2) \o <<"-">> \o FormatNat(t[3], 2)

----------------------------------------------------------------------------
(* Files of the working directory *)

RawPath == "european/clubs_tweets.csv"
SamplerOutputPath == "european/football_tweets_all.csv"
ClassifierInputPath == "european/football_tweets_all.csv"
ClassifierOutputPath == "european/football_sentiments_all.csv"
DashboardInputPath == "football_sentiments_all.csv"

Paths ==
    { RawPath, SamplerOutputPath, ClassifierInputPath, ClassifierOutputPath,
      DashboardInputPath }

NoPath == "<none>"
NoFile == [exists |-> FALSE, rows |-> <<>>]
File(rows) == [exists |-> TRUE, rows |-> rows]

Stages == {"Sampler", "Classifier", "Dashboard"}

Map(t, F(_)) == [i \in DOMAIN t |-> F(t[i])]

Reverse(t) == [i \in DOMAIN t |-> t[Len(t) + 1 - i]]

----------------------------------------------------------------------------
(* Sampler: prepare_data.py *)

SampleSize == 1500

\* pd.read_csv of the raw export, then pd.to_datetime(errors="coerce") on
\* tweet_created_at
ReadRawRow(r) ==
    [tweet_created_at |-> ToDatetime(ReadCell(r.tweet_created_at)),
     tweet_full_text  |-> ReadCell(r.tweet_full_text),
     user_screen_name |-> ReadCell(r.user_screen_name)]

\* the three selected columns, renamed
RenameRow(r) ==
    [date |-> r.tweet_created_at, text |-> r.tweet_full_text,
     club_name |-> r.user_screen_name]

\* HasText with the blank-text filter left out (dropna only)
HasTextNotNull(r) == r.text # Null

\* dropna(subset=["text"]) and text.str.strip() != ""
HasText(r) == r.text # Null /\ Strip(r.text) # <<>>

DropBlankText(t) == SelectSeq(t, HasText)

\* df_clean before sampling
df_clean(rawRows) == DropBlankText(Map(Map(rawRows, ReadRawRow), RenameRow))

\* DataFrame.sample(n=1500, random_state=42): n distinct rows in the order the
\* seeded generator draws them. The draw is fixed by the seed but not
\* computable here; the outcomes enumerated are the windows of n consecutive
\* rows, in table order or reversed.
SampleChoices(t) ==
    IF Len(t) > SampleSize
    THEN (0..(Len(t) - SampleSize)) \X BOOLEAN
    ELSE {<<0, FALSE>>}

Sample(t, choice) ==
    IF Len(t) > SampleSize
    THEN LET window == SubSeq(t, choice[1] + 1, choice[1] + SampleSize)
         IN IF choice[2] THEN Reverse(window) ELSE window
    ELSE t

\* to_csv(index=False) of the sampled table
WriteSampledRow(r) ==
    [date |-> WriteDate(r.date), text |-> WriteCell(r.text),
     club_name |-> WriteCell(r.club_name)]

----------------------------------------------------------------------------
(* Classifier: analyze_sentiment.py *)

TruncLen == 512

POSITIVE == <<"P","O","S","I","T","I","V","E">>
NEGATIVE == <<"N","E","G","A","T","I","V","E">>
NEUTRAL  == <<"N","E","U","T","R","A","L">>

\* pd.read_csv of the sampled file: no date parsing here, the column stays text
ReadSampledRow(r) ==
    [date |-> ReadCell(r.date), text |-> ReadCell(r.text),
     club_name |-> ReadCell(r.club_name)]

\* ClassifierFilter with dropna() over every column instead of subset=["text"]
ClassifierFilterAnyColumn(t) ==
    LET Complete(r) == HasText(r) /\ r.date # Null /\ r.club_name # Null
    IN SelectSeq(t, Complete)

\* df.dropna(subset=["text"]); df[df["text"].str.strip() != ""]
ClassifierFilter(t) == SelectSeq(t, HasText)

\* str(x): a missing value prints as "nan"
Str(v) == IF v = Null THEN <<"n","a","n">> ELSE v

\* ServiceArg without the [:512] slice
ServiceArgUntruncated(text) == Str(text)

\* str(text)[:512]
ServiceArg(text) ==
    LET s == Str(text) IN SubSeq(s, 1, IF Len(s) < TruncLen THEN Len(s) ELSE TruncLen)

\* What one call of the external service can do: return a label, raise an
\* exception that derives from Exception, or raise one that does not
\* (KeyboardInterrupt, SystemExit).
ServiceOutcomes ==
    { [kind |-> "return", label |-> POSITIVE],
      [kind |-> "return", label |-> NEGATIVE],
      [kind |-> "Exception", label |-> <<>>],
      [kind |-> "BaseException", label |-> <<>>] }

\* "except Exception": what the handler of safe_predict catches
Caught(outcome) == outcome.kind = "Exception"

\* safe_predict propagates the exception instead of returning
Propagates(outcome) == outcome.kind # "return" /\ ~Caught(outcome)

\* the value safe_predict returns when it returns
safe_predict(outcome) ==
    IF outcome.kind = "return" THEN outcome.label ELSE NEUTRAL

\* to_csv(index=False) of the labeled table
WriteLabeledRow(r, label) ==
    [date |-> WriteCell(r.date), text |-> WriteCell(r.text),
     club_name |-> WriteCell(r.club_name), sentiment |-> WriteCell(label)]

IdleClassifier == [pc |-> "idle", input |-> <<>>, df |-> <<>>, labels |-> <<>>]

----------------------------------------------------------------------------
(* Dashboard: app.py, load_data *)

Positive == <<"P","o","s","i","t","i","v","e">>
Negative == <<"N","e","g","a","t","i","v","e">>

\* .str methods leave a missing value missing
OnStr(v, F(_)) == IF v = Null THEN Null ELSE F(v)

\* .str.replace(r"[_-]", " ", regex=True)
SepToSpace(s) == [i \in DOMAIN s |-> IF s[i] \in {"_", "-"} THEN " " ELSE s[i]]

\* the alternatives of r"FC|cf|official|en|es|cat|de|fr|nl", in order
BoilerplateTokens ==
    << <<"F","C">>, <<"c","f">>, <<"o","f","f","i","c","i","a","l">>,
       <<"e","n">>, <<"e","s">>, <<"c","a","t">>, <<"d","e">>,
       <<"f","r">>, <<"n","l">> >>

\* the alternatives that match at position i, ignoring case
MatchesAt(s, i) ==
    { k \in DOMAIN BoilerplateTokens : StartsAtNoCase(s, i, BoilerplateTokens[k]) }

MinOf(S) == CHOOSE x \in S : \A y \in S : x <= y

\* .str.replace(<alternation>, "", case=False, regex=True): scanning left to
\* right, the first alternative matching at a position is deleted and the scan
\* resumes after it
RECURSIVE RemoveTokensFrom(_, _)
RemoveTokensFrom(s, i) ==
    IF i > Len(s) THEN <<>>
    ELSE IF MatchesAt(s, i) # {}
         THEN RemoveTokensFrom(s, i + Len(BoilerplateTokens[MinOf(MatchesAt(s, i))]))
         ELSE <<s[i]>> \o RemoveTokensFrom(s, i + 1)

RemoveTokens(s) == RemoveTokensFrom(s, 1)

\* the club_name cleaning chain on one string
CleanClubName(s) == Title(Strip(RemoveTokens(SepToSpace(s))))

\* df["date"].dt.year: missing for NaT (<<>>), else <<year>>
YearOf(t) == IF t = NaT THEN <<>> ELSE <<t[1]>>

\* pd.read_csv of the labeled file followed by the normalization of load_data
LoadRow(r) ==
    LET date == ToDatetime(ReadCell(r.date)) IN
    [date      |-> date,
     text      |-> ReadCell(r.text),
     club_name |-> OnStr(ReadCell(r.club_name), CleanClubName),
     sentiment |-> OnStr(ReadCell(r.sentiment), Capitalize),
     year      |-> YearOf(date)]

load_data(fileRows) == Map(fileRows, LoadRow)

NoCache == [loaded |-> FALSE, df |-> <<>>]

\* CacheHit for a load_data without the cache decorator
CacheNever(c) == FALSE

\* @st.cache_data: a stored return value is reused instead of running the body
CacheHit(c) == c.loaded

----------------------------------------------------------------------------
(* Dashboard: sidebar filters *)

AllStr == <<"A","l","l">>
YearAll == [all |-> TRUE, y |-> 0]
YearIs(y) == [all |-> FALSE, y |-> y]

\* ["All"] + list(years)
YearOptions(df) ==
    {YearAll} \cup { YearIs(df[i].year[1]) : i \in { j \in DOMAIN df : df[j].year # <<>> } }

\* ["All"] + clubs
ClubOptions(df) ==
    {AllStr} \cup { df[i].club_name : i \in { j \in DOMAIN df : df[j].club_name # Null } }

\* if selected_year != "All": filtered_df[filtered_df["year"] == selected_year]
FilterYear(t, selected_year) ==
    IF selected_year.all THEN t
    ELSE LET Keep(r) == r.year = <<selected_year.y>> IN SelectSeq(t, Keep)

\* FilterClub without the "All" test
FilterClubAlways(t, selected_club) ==
    LET Keep(r) == r.club_name = selected_club IN SelectSeq(t, Keep)

\* if selected_club != "All": filtered_df[filtered_df["club_name"] == selected_club]
FilterClub(t, selected_club) ==
    IF selected_club = AllStr THEN t
    ELSE LET Keep(r) == r.club_name = selected_club IN SelectSeq(t, Keep)

filtered_df(df, selected_year, selected_club) ==
    FilterClub(FilterYear(df, selected_year), selected_club)

----------------------------------------------------------------------------
(* Dashboard: aggregates of the filtered view *)

Count(t, P(_)) == Cardinality({ i \in DOMAIN t : P(t[i]) })

\* len(filtered_df[filtered_df["sentiment"] == label])
SentimentTotal(t, label) ==
    LET Is(r) == r.sentiment = label IN Count(t, Is)

\* groupby("sentiment").size(): missing keys are dropped
sentiment_counts(t) ==
    LET keys == { t[i].sentiment : i \in DOMAIN t } \ {Null} IN
    { [sentiment |-> k, count |-> SentimentTotal(t, k)] : k \in keys }

\* time_df["date"].dt.to_period("M").astype(str): "YYYY-MM", and the string
\* "NaT" for a missing date
MonthOf(t) ==
    IF t = NaT THEN <<"N","a","T">>
    ELSE FormatNat(t[1], 4) \o <<"-">> \o FormatNat(t[2], 2)

\* time_df.groupby(["month", "sentiment"]).size()
trend_df(t) ==
    LET keyed == { i \in DOMAIN t : t[i].sentiment # Null }
        keys == { <<MonthOf(t[i].date), t[i].sentiment>> : i \in keyed } IN
    { [month |-> k[1], sentiment |-> k[2],
       count |-> Cardinality({ i \in keyed :
                     <<MonthOf(t[i].date), t[i].sentiment>> = k })] : k \in keys }

\* groupby("club_name").size()
ClubSizes(t) ==
    LET keys == { t[i].club_name : i \in DOMAIN t } \ {Null} IN
    { [club_name |-> k,
       tweet_count |-> Cardinality({ i \in DOMAIN t : t[i].club_name = k })] : k \in keys }

\* sort_values(key, ascending=False).head(n): every set of n rows that no
\* left-out row outranks (the order among ties is the sort's choice)
HeadChoices(S, n, Outranks(_, _)) ==
    IF Cardinality(S) <= n THEN {S}
    ELSE { T \in SUBSET S : /\ Cardinality(T) = n
                            /\ \A a \in T, b \in S \ T : ~Outranks(b, a) }

TopClubs == 10

club_rank_choices(t) ==
    LET More(a, b) == a.tweet_count > b.tweet_count IN
    HeadChoices(ClubSizes(t), TopClubs, More)

\* groupby(["club_name", "sentiment"]).size()
club_counts(t) ==
    LET keyed == { i \in DOMAIN t : t[i].sentiment # Null /\ t[i].club_name # Null }
        keys == { <<t[i].club_name, t[i].sentiment>> : i \in keyed } IN
    { [club_name |-> k[1], sentiment |-> k[2],
       count |-> Cardinality({ i \in keyed :
                     <<t[i].club_name, t[i].sentiment>> = k })] : k \in keys }

\* the sentiment columns of the unstacked table
RatioColumns(t) == { g.sentiment : g \in club_counts(t) }

\* RatioGuard for a ratio computed without testing for the two columns
RatioGuardMissing(columns) == TRUE

\* if all(x in ratio_df.columns for x in ["Positive", "Negative"])
RatioGuard(columns) == Positive \in columns /\ Negative \in columns

\* ratio_df["Positive"], ratio_df["Negative"]: KeyError on a missing column
RatioKeyError(columns) == ~(Positive \in columns /\ Negative \in columns)

CellCount(t, club, label) ==
    Cardinality({ i \in DOMAIN t : t[i].club_name = club /\ t[i].sentiment = label })

TopRatios == 20

\* Positive / (Negative + 1), kept as the fraction <<numerator, denominator>>
ratio_df_choices(t) ==
    LET clubs == { g.club_name : g \in club_counts(t) }
        rows == { [club_name |-> c,
                   Positive |-> CellCount(t, c, Positive),
                   Negative |-> CellCount(t, c, Negative),
                   sentiment_ratio |->
                       <<CellCount(t, c, Positive), CellCount(t, c, Negative) + 1>>]
                  : c \in clubs }
        More(a, b) == a.sentiment_ratio[1] * b.sentiment_ratio[2]
                        > b.sentiment_ratio[1] * a.sentiment_ratio[2]
    IN HeadChoices(rows, TopRatios, More)

\* tab3: df.groupby(["year", "sentiment"]).size(), on the unfiltered dataset
yearly_trend(df) ==
    LET keyed == { i \in DOMAIN df : df[i].sentiment # Null /\ df[i].year # <<>> }
        keys == { <<df[i].year, df[i].sentiment>> : i \in keyed } IN
    { [year |-> k[1][1], sentiment |-> k[2],
       count |-> Cardinality({ i \in keyed :
                     <<df[i].year, df[i].sentiment>> = k })] : k \in keys }

----------------------------------------------------------------------------
(* Dashboard: word-cloud text (tab4) *)

english_stopwords ==
  {
    <<"i">>, <<"m", "e">>, <<"m", "y">>, <<"m", "y", "s", "e", "l", "f">>,
    <<"w", "e">>, <<"o", "u", "r">>, <<"o", "u", "r", "s">>, <<"o", "u", "r", "s", "e", "l", "v", "e", "s">>,
    <<"y", "o", "u">>, <<"y", "o", "u", "'", "r", "e">>, <<"y", "o", "u", "'", "v", "e">>, <<"y", "o", "u", "'", "l", "l">>,
    <<"y", "o", "u", "'", "d">>, <<"y", "o", "u", "r">>, <<"y", "o", "u", "r", "s">>, <<"y", "o", "u", "r", "s", "e", "l", "f">>,
    <<"y", "o", "u", "r", "s", "e", "l", "v", "e", "s">>, <<"h", "e">>, <<"h", "i", "m">>, <<"h", "i", "s">>,
    <<"h", "i", "m", "s", "e", "l", "f">>, <<"s", "h", "e">>, <<"s", "h", "e", "'", "s">>, <<"h", "e", "r">>,
    <<"h", "e", "r", "s">>, <<"h", "e", "r", "s", "e", "l", "f">>, <<"i", "t">>, <<"i", "t", "'", "s">>,
    <<"i", "t", "s">>, <<"i", "t", "s", "e", "l", "f">>, <<"t", "h", "e", "y">>, <<"t", "h", "e", "m">>,
    <<"t", "h", "e", "i", "r">>, <<"t", "h", "e", "i", "r", "s">>, <<"t", "h", "e", "m", "s", "e", "l", "v", "e", "s">>, <<"w", "h", "a", "t">>,
    <<"w", "h", "i", "c", "h">>, <<"w", "h", "o">>, <<"w", "h", "o", "m">>, <<"t", "h", "i", "s">>,
    <<"t", "h", "a", "t">>, <<"t", "h", "a", "t", "'", "l", "l">>, <<"t", "h", "e", "s", "e">>, <<"t", "h", "o", "s", "e">>,
    <<"a", "m">>, <<"i", "s">>, <<"a", "r", "e">>, <<"w", "a", "s">>,
    <<"w", "e", "r", "e">>, <<"b", "e">>, <<"b", "e", "e", "n">>, <<"b", "e", "i", "n", "g">>,
    <<"h", "a", "v", "e">>, <<"h", "a", "s">>, <<"h", "a", "d">>, <<"h", "a", "v", "i", "n", "g">>,
    <<"d", "o">>, <<"d", "o", "e", "s">>, <<"d", "i", "d">>, <<"d", "o", "i", "n", "g">>,
    <<"a">>, <<"a", "n">>, <<"t", "h", "e">>, <<"a", "n", "d">>,
    <<"b", "u", "t">>, <<"i", "f">>, <<"o", "r">>, <<"b", "e", "c", "a", "u", "s", "e">>,
    <<"a", "s">>, <<"u", "n", "t", "i", "l">>, <<"w", "h", "i", "l", "e">>, <<"o", "f">>,
    <<"a", "t">>, <<"b", "y">>, <<"f", "o", "r">>, <<"w", "i", "t", "h">>,
    <<"a", "b", "o", "u", "t">>, <<"a", "g", "a", "i", "n", "s", "t">>, <<"b", "e", "t", "w", "e", "e", "n">>, <<"i", "n", "t", "o">>,
    <<"t", "h", "r", "o", "u", "g", "h">>, <<"d", "u", "r", "i", "n", "g">>, <<"b", "e", "f", "o", "r", "e">>, <<"a", "f", "t", "e", "r">>,
    <<"a", "b", "o", "v", "e">>, <<"b", "e", "l", "o", "w">>, <<"t", "o">>, <<"f", "r", "o", "m">>,
    <<"u", "p">>, <<"d", "o", "w", "n">>, <<"i", "n">>, <<"o", "u", "t">>,
    <<"o", "n">>, <<"o", "f", "f">>, <<"o", "v", "e", "r">>, <<"u", "n", "d", "e", "r">>,
    <<"a", "g", "a", "i", "n">>, <<"f", "u", "r", "t", "h", "e", "r">>, <<"t", "h", "e", "n">>, <<"o", "n", "c", "e">>,
    <<"h", "e", "r", "e">>, <<"t", "h", "e", "r", "e">>, <<"w", "h", "e", "n">>, <<"w", "h", "e", "r", "e">>,
    <<"w", "h", "y">>, <<"h", "o", "w">>, <<"a", "l", "l">>, <<"a", "n", "y">>,
    <<"b", "o", "t", "h">>, <<"e", "a", "c", "h">>, <<"f", "e", "w">>, <<"m", "o", "r", "e">>,
    <<"m", "o", "s", "t">>, <<"o", "t", "h", "e", "r">>, <<"s", "o", "m", "e">>, <<"s", "u", "c", "h">>,
    <<"n", "o">>, <<"n", "o", "r">>, <<"n", "o", "t">>, <<"o", "n", "l", "y">>,
    <<"o", "w", "n">>, <<"s", "a", "m", "e">>, <<"s", "o">>, <<"t", "h", "a", "n">>,
    <<"t", "o", "o">>, <<"v", "e", "r", "y">>, <<"s">>, <<"t">>,
    <<"c", "a", "n">>, <<"w", "i", "l", "l">>, <<"j", "u", "s", "t">>, <<"d", "o", "n">>,
    <<"d", "o", "n", "'", "t">>, <<"s", "h", "o", "u", "l", "d">>, <<"s", "h", "o", "u", "l", "d", "'", "v", "e">>, <<"n", "o", "w">>,
    <<"d">>, <<"l", "l">>, <<"m">>, <<"o">>,
    <<"r", "e">>, <<"v", "e">>, <<"y">>, <<"a", "i", "n">>,
    <<"a", "r", "e", "n">>, <<"a", "r", "e", "n", "'", "t">>, <<"c", "o", "u", "l", "d", "n">>, <<"c", "o", "u", "l", "d", "n", "'", "t">>,
    <<"d", "i", "d", "n">>, <<"d", "i", "d", "n", "'", "t">>, <<"d", "o", "e", "s", "n">>, <<"d", "o", "e", "s", "n", "'", "t">>,
    <<"h", "a", "d", "n">>, <<"h", "a", "d", "n", "'", "t">>, <<"h", "a", "s", "n">>, <<"h", "a", "s", "n", "'", "t">>,
    <<"h", "a", "v", "e", "n">>, <<"h", "a", "v", "e", "n", "'", "t">>, <<"i", "s", "n">>, <<"i", "s", "n", "'", "t">>,
    <<"m", "a">>, <<"m", "i", "g", "h", "t", "n">>, <<"m", "i", "g", "h", "t", "n", "'", "t">>, <<"m", "u", "s", "t", "n">>,
    <<"m", "u", "s", "t", "n", "'", "t">>, <<"n", "e", "e", "d", "n">>, <<"n", "e", "e", "d", "n", "'", "t">>, <<"s", "h", "a", "n">>,
    <<"s", "h", "a", "n", "'", "t">>, <<"s", "h", "o", "u", "l", "d", "n">>, <<"s", "h", "o", "u", "l", "d", "n", "'", "t">>, <<"w", "a", "s", "n">>,
    <<"w", "a", "s", "n", "'", "t">>, <<"w", "e", "r", "e", "n">>, <<"w", "e", "r", "e", "n", "'", "t">>, <<"w", "o", "n">>,
    <<"w", "o", "n", "'", "t">>, <<"w", "o", "u", "l", "d", "n">>, <<"w", "o", "u", "l", "d", "n", "'", "t">> }

extra_stops ==
  {
    <<"h", "t", "t", "p", "s">>, <<"c", "o">>, <<"a", "m", "p">>, <<"f", "c">>,
    <<"b", "a", "r", "c", "a">>, <<"j", "u", "v", "e">>, <<"m", "a", "d", "r", "i", "d">>, <<"b", "a", "y", "e", "r", "n">>,
    <<"r", "e", "a", "l">>, <<"u", "c", "l">>, <<"t", "e", "a", "m">>, <<"g", "a", "m", "e">>,
    <<"m", "a", "t", "c", "h">>, <<"s", "e", "a", "s", "o", "n">>, <<"g", "o", "a", "l">>, <<"w", "i", "n">>,
    <<"r", "t">>, <<"v", "s">>, <<"t", "o", "d", "a", "y">>, <<"c", "l", "u", "b">>,
    <<"d", "e">>, <<"l", "a">>, <<"e", "l">>, <<"e", "n">>,
    <<"c", "o", "n">>, <<"u", "n">>, <<"l", "o", "s">>, <<"l", "a", "s">>,
    <<"p", "a", "r", "a">>, <<"d", "e", "l">>, <<"u", "n", "d">>, <<"d", "i", "e">>,
    <<"d", "a", "s">>, <<"d", "e", "r">>, <<"m", "i", "t">>, <<"a", "u", "f">>,
    <<"z", "u", "m">>, <<"q", "u", "e">>, <<"j", "e">>, <<"a", "u">> }

\* stop_words = set(stopwords.words("english")); stop_words.update(extra_stops)
stop_words == english_stopwords \cup extra_stops

\* " ".join(filtered_df["text"].astype(str))
text_data(t) ==
    LET TextOf(r) == Str(r.text) IN Join(<<" ">>, Map(t, TextOf))

\* if len(text_data.strip()) == 0: the "no data" branch
NoTextGuard(s) == Len(Strip(s)) = 0

\* end of the run of non-whitespace characters starting at i
RECURSIVE SkipNonSpace(_, _)
SkipNonSpace(s, i) ==
    IF i <= Len(s) /\ ~IsSpace(s[i]) THEN SkipNonSpace(s, i + 1) ELSE i

\* end of the run of \w characters starting at i
RECURSIVE SkipWordChars(_, _)
SkipWordChars(s, i) ==
    IF i <= Len(s) /\ IsWordChar(s[i]) THEN SkipWordChars(s, i + 1) ELSE i

Http == <<"h","t","t","p">>

\* re.sub(r"http\S+", "", s)
RECURSIVE RemoveUrlsFrom(_, _)
RemoveUrlsFrom(s, i) ==
    IF i > Len(s) THEN <<>>
    ELSE IF StartsAt(s, i, Http) /\ i + 4 <= Len(s) /\ ~IsSpace(s[i + 4])
         THEN RemoveUrlsFrom(s, SkipNonSpace(s, i + 4))
         ELSE <<s[i]>> \o RemoveUrlsFrom(s, i + 1)

\* re.sub(r"@\w+", "", s)
RECURSIVE RemoveMentionsFrom(_, _)
RemoveMentionsFrom(s, i) ==
    IF i > Len(s) THEN <<>>
    ELSE IF s[i] = "@" /\ i + 1 <= Len(s) /\ IsWordChar(s[i + 1])
         THEN RemoveMentionsFrom(s, SkipWordChars(s, i + 1))
         ELSE <<s[i]>> \o RemoveMentionsFrom(s, i + 1)

\* re.sub(r"[^a-zA-Z\s]", " ", s)
NonAlphaToSpace(s) ==
    [i \in DOMAIN s |-> IF IsAlpha(s[i]) \/ IsSpace(s[i]) THEN s[i] ELSE " "]

\* [w for w in s.split() if w not in stop_words and len(w) > 2]
KeepWord(w) == w \notin stop_words /\ Len(w) > 2

\* the cleaning of the else branch, up to the text handed to WordCloud.generate
CleanCloudText(s) ==
    LET lowered == LowerStr(s)
        noUrls == RemoveUrlsFrom(lowered, 1)
        noMentions == RemoveMentionsFrom(noUrls, 1)
        lettersOnly == NonAlphaToSpace(noMentions)
    IN Join(<<" ">>, SelectSeq(Split(lettersOnly), KeepWord))

\* WordCloud(...).generate(text) raises ValueError ("We need at least 1 word
\* to plot a word cloud, got 0") on a text without words. The library's own
\* stop-word list is not modelled.
GenerateRaises(s) == Split(s) = <<>>

NotCalled == [called |-> FALSE, text |-> <<>>]
CalledWith(s) == [called |-> TRUE, text |-> s]

----------------------------------------------------------------------------
(* Bounds and input domains *)

MaxRows == 2        \* rows of a small input table
MaxStages == 3      \* completed stage runs in one behaviour
MaxRuns == 2        \* Dashboard script runs in one behaviour
MaxSlack == 1       \* cleaned row counts range over SampleSize +/- MaxSlack
MaxDirty == 2       \* rows without text in a large raw table

BoundedSeq(S, n) == UNION { [1..k -> S] : k \in 0..n }

\* a text one character longer than the service's limit
LongText == [i \in 1..(TruncLen + 1) |-> IF i <= TruncLen THEN "a" ELSE "b"]

RawRows ==
    { [tweet_created_at |-> <<"2","0","2","3","-","0","5","-","0","1">>,
       tweet_full_text |-> <<"w","h","a","t"," ","a"," ","g","o","a","l">>,
       user_screen_name |-> <<"f","c","_","b","a","r","c","a">>],
      [tweet_created_at |-> <<"n","o","t"," ","a"," ","d","a","t","e">>,
       tweet_full_text |-> LongText,
       user_screen_name |-> <<"r","e","a","l","_","m","a","d","r","i","d","-","f","c">>],
      [tweet_created_at |-> <<"2","0","2","2","-","0","1","-","1","0">>,
       tweet_full_text |-> <<"N","A">>,
       user_screen_name |-> <<>>] }

LabeledRows ==
    { [date |-> <<"2","0","2","3","-","0","5","-","0","1">>,
       text |-> <<"w","h","a","t"," ","a"," ","g","o","a","l"," ","f","r","o","m"," ","t","h","e"," ","l","a","d","s">>,
       club_name |-> <<"f","c","_","b","a","r","c","a">>,
       sentiment |-> <<"p","o","s","i","t","i","v","e">>],
      [date |-> <<"2","0","2","2","-","0","1","-","1","0">>,
       text |-> <<"t","e","r","r","i","b","l","e"," ","d","e","f","e","n","d","i","n","g"," ","a","g","a","i","n">>,
       club_name |-> <<"r","e","a","l","_","m","a","d","r","i","d","-","f","c">>,
       sentiment |-> <<"n","e","g","a","t","i","v","e">>],
      [date |-> <<>>,
       text |-> <<"R","T"," ","@","f","c","b"," ","h","t","t","p","s",":","/","/","t",".","c","o","/","x","1">>,
       club_name |-> <<"a","r","s","e","n","a","l">>,
       sentiment |-> <<"N","E","U","T","R","A","L">>],
      [date |-> <<"2","0","2","3","-","0","5","-","1","7">>,
       text |-> <<"t","h","e"," ","w","i","n">>,
       club_name |-> <<"C","h","e","l","s","e","a","_","F","C","_","e","n">>,
       sentiment |-> <<"P","O","S","I","T","I","V","E">>],
      [date |-> <<"2","0","2","3","-","1","3","-","0","1">>,
       text |-> <<"s","o"," ","p","r","o","u","d"," ","t","o","n","i","g","h","t">>,
       club_name |-> <<"f","c","_","b","a","r","c","a">>,
       sentiment |-> <<"N","E","G","A","T","I","V","E">>] }

\* a labeled file left at the Dashboard's path by an earlier run
StaleLabeled ==
    << [date |-> <<"2","0","2","1","-","0","3","-","0","7">>,
        text |-> <<"o","l","d"," ","n","e","w","s">>,
        club_name |-> <<"a","j","a","x">>,
        sentiment |-> POSITIVE] >>

\* the rows of a large raw table: numbered texts make the rows distinct
GoodRow(i) ==
    [tweet_created_at |-> <<>>,
     tweet_full_text  |-> <<"t">> \o FormatNat(i, 4),
     user_screen_name |-> <<"a","j","a","x">>]

\* texts the Sampler must drop: empty, blank, and a string read as missing
DirtyTexts == { <<>>, <<" ">>, <<"N","A">> }

DirtyRow(text) ==
    [tweet_created_at |-> <<>>, tweet_full_text |-> text,
     user_screen_name |-> <<"a","j","a","x">>]

\* nClean rows with text and nDirty rows without, the latter first or last
LargeRaw(nClean, nDirty, text, front) ==
    LET good == [i \in 1..nClean |-> GoodRow(i)]
        bad == [k \in 1..nDirty |-> DirtyRow(text)]
    IN IF front THEN bad \o good ELSE good \o bad

LargeRawTables ==
    { LargeRaw(n, d, t, f) :
        n \in (SampleSize - MaxSlack)..(SampleSize + MaxSlack),
        d \in 0..MaxDirty, t \in DirtyTexts, f \in BOOLEAN }

EmptyDir == [p \in Paths |-> NoFile]
NoneYet == [s \in Stages |-> NoPath]

\* what a script run shows before anything has been computed
BlankUi ==
    [selected_year |-> YearAll, selected_club |-> AllStr, filtered_df |-> <<>>,
     total |-> 0, positive |-> 0, negative |-> 0,
     sentiment_counts |-> {}, trend_df |-> {}, club_rank |-> {},
     ratio_df |-> {}, club_counts |-> {}, yearly_trend |-> {},
     text_data |-> <<>>, notice |-> FALSE, cloud |-> NotCalled, raised |-> "none"]

----------------------------------------------------------------------------
(* Initial states *)

InitCommon ==
    /\ ran = <<>>
    /\ reads = NoneYet
    /\ writes = NoneYet
    /\ cls = IdleClassifier
    /\ calls = <<>>
    /\ cache = NoCache
    /\ disk_reads = 0
    /\ runs = 0
    /\ ui = BlankUi

\* the pipeline on a small raw export; the Dashboard's path is empty or holds
\* a file of an earlier run
Init ==
    /\ InitCommon
    /\ \E raw \in BoundedSeq(RawRows, MaxRows), old \in {NoFile, File(StaleLabeled)} :
          fs = [EmptyDir EXCEPT ![RawPath] = File(raw), ![DashboardInputPath] = old]

\* the Sampler on raw exports around the sample size
InitSampler ==
    /\ InitCommon
    /\ \E raw \in LargeRawTables : fs = [EmptyDir EXCEPT ![RawPath] = File(raw)]

\* the Dashboard on a labeled file
InitDash ==
    /\ InitCommon
    /\ \E t \in BoundedSeq(LabeledRows, MaxRows) :
          fs = [EmptyDir EXCEPT ![DashboardInputPath] = File(t)]

----------------------------------------------------------------------------
(* Sampler *)

\* .str on a column read as all-missing (dtype float64) raises AttributeError
TextAccessorRaises(rawRows) ==
    rawRows # <<>> /\ \A i \in DOMAIN rawRows : ReadCell(rawRows[i].tweet_full_text) = Null

\* one run of prepare_data.py
RunSampler ==
    /\ cls.pc # "apply"
    /\ Len(ran) < MaxStages
    /\ fs[RawPath].exists
    /\ LET rawRows == fs[RawPath].rows
           cleaned == df_clean(rawRows)
       IN IF TextAccessorRaises(rawRows)
          THEN /\ reads' = [reads EXCEPT !["Sampler"] = RawPath]
               /\ UNCHANGED <<fs, ran, writes>>
          ELSE \E choice \in SampleChoices(cleaned) :
               /\ fs' = [fs EXCEPT ![SamplerOutputPath] =
                            File(Map(Sample(cleaned, choice), WriteSampledRow))]
               /\ reads' = [reads EXCEPT !["Sampler"] = RawPath]
               /\ writes' = [writes EXCEPT !["Sampler"] = SamplerOutputPath]
               /\ ran' = Append(ran, "Sampler")
    /\ UNCHANGED <<cls, calls, cache, disk_reads, runs, ui>>

----------------------------------------------------------------------------
(* Classifier *)

\* analyze_sentiment.py up to the apply: read the sampled file, drop rows
\* without text
ClassifierStart ==
    /\ cls.pc # "apply"
    /\ Len(ran) < MaxStages
    /\ fs[ClassifierInputPath].exists
    /\ cls' = [pc |-> "apply",
               input |-> fs[ClassifierInputPath].rows,
               df |-> ClassifierFilter(Map(fs[ClassifierInputPath].rows, ReadSampledRow)),
               labels |-> <<>>]
    /\ calls' = <<>>
    /\ reads' = [reads EXCEPT !["Classifier"] = ClassifierInputPath]
    /\ UNCHANGED <<fs, ran, writes, cache, disk_reads, runs, ui>>

\* df["text"].apply(safe_predict), one row: the service is called once and
\* safe_predict returns its label or the fallback
ClassifyRow ==
    /\ cls.pc = "apply"
    /\ Len(cls.labels) < Len(cls.df)
    /\ \E outcome \in ServiceOutcomes :
          /\ ~Propagates(outcome)
          /\ calls' = Append(calls,
                 [arg |-> ServiceArg(cls.df[Len(cls.labels) + 1].text), outcome |-> outcome])
          /\ cls' = [cls EXCEPT !.labels = Append(@, safe_predict(outcome))]
    /\ UNCHANGED <<fs, ran, reads, writes, cache, disk_reads, runs, ui>>

\* the same row, when the exception is not one safe_predict catches: it
\* leaves apply and ends the script before to_csv
ClassifyRowPropagates ==
    /\ cls.pc = "apply"
    /\ Len(cls.labels) < Len(cls.df)
    /\ \E outcome \in ServiceOutcomes :
          /\ Propagates(outcome)
          /\ calls' = Append(calls,
                 [arg |-> ServiceArg(cls.df[Len(cls.labels) + 1].text), outcome |-> outcome])
          /\ cls' = [cls EXCEPT !.pc = "aborted"]
    /\ UNCHANGED <<fs, ran, reads, writes, cache, disk_reads, runs, ui>>

\* df.to_csv(output_path, index=False)
ClassifierWrite ==
    /\ cls.pc = "apply"
    /\ Len(cls.labels) = Len(cls.df)
    /\ fs' = [fs EXCEPT ![ClassifierOutputPath] =
                 File([i \in DOMAIN cls.df |-> WriteLabeledRow(cls.df[i], cls.labels[i])])]
    /\ cls' = [cls EXCEPT !.pc = "done"]
    /\ writes' = [writes EXCEPT !["Classifier"] = ClassifierOutputPath]
    /\ ran' = Append(ran, "Classifier")
    /\ UNCHANGED <<reads, calls, cache, disk_reads, runs, ui>>

----------------------------------------------------------------------------
(* Dashboard *)

\* tabs 2 to 4 of one script run, given what the sidebar and tab1 computed
AfterTab1(base, df) ==
    LET view == base.filtered_df
        joined == text_data(view)
        cleaned == CleanCloudText(joined)
    IN [base EXCEPT
          !.club_counts = club_counts(view),
          !.yearly_trend = yearly_trend(df),
          !.text_data = joined,
          !.notice = NoTextGuard(joined),
          !.cloud = IF NoTextGuard(joined) THEN NotCalled ELSE CalledWith(cleaned),
          !.raised = IF ~NoTextGuard(joined) /\ GenerateRaises(cleaned)
                     THEN "ValueError" ELSE "none"]

\* the sidebar and tab1 of one script run
ScriptRun(df, selected_year, selected_club, rank, ratio) ==
    LET view == filtered_df(df, selected_year, selected_club)
        tab1 == [BlankUi EXCEPT
                   !.selected_year = selected_year,
                   !.selected_club = selected_club,
                   !.filtered_df = view,
                   !.total = Len(view),
                   !.positive = SentimentTotal(view, Positive),
                   !.negative = SentimentTotal(view, Negative),
                   !.sentiment_counts = sentiment_counts(view),
                   !.trend_df = trend_df(view),
                   !.club_rank = rank]
    IN IF RatioGuard(RatioColumns(view))
       THEN IF RatioKeyError(RatioColumns(view))
            THEN [tab1 EXCEPT !.raised = "KeyError"]
            ELSE AfterTab1([tab1 EXCEPT !.ratio_df = ratio], df)
       ELSE AfterTab1(tab1, df)

\* both selectboxes start on their first option, "All"
DefaultSelection == {<<YearAll, AllStr>>}

\* any pair of options of the two selectboxes
Selections(df) == YearOptions(df) \X ClubOptions(df)

\* one run of app.py, the first of the process or a rerun after a selection:
\* load_data through the cache, then the script body
RunScript(first) ==
    /\ cls.pc # "apply"
    /\ runs < MaxRuns
    /\ runs' = runs + 1
    /\ reads' = [reads EXCEPT !["Dashboard"] =
                    IF CacheHit(cache) THEN @ ELSE DashboardInputPath]
    /\ IF ~CacheHit(cache) /\ ~fs[DashboardInputPath].exists
       THEN /\ ui' = [BlankUi EXCEPT !.raised = "FileNotFoundError"]
            /\ UNCHANGED <<cache, disk_reads, ran>>
       ELSE LET df == IF CacheHit(cache) THEN cache.df
                      ELSE load_data(fs[DashboardInputPath].rows)
            IN /\ cache' = [loaded |-> TRUE, df |-> df]
               /\ disk_reads' = IF CacheHit(cache) THEN disk_reads ELSE disk_reads + 1
               /\ ran' = IF CacheHit(cache) THEN ran ELSE Append(ran, "Dashboard")
               /\ \E sel \in (IF first THEN DefaultSelection ELSE Selections(df)) :
                    LET view == filtered_df(df, sel[1], sel[2]) IN
                    \E rank \in club_rank_choices(view), ratio \in ratio_df_choices(view) :
                       ui' = ScriptRun(df, sel[1], sel[2], rank, ratio)
    /\ UNCHANGED <<fs, cls, calls, writes>>

\* the first script run of the Dashboard process
DashboardStart ==
    /\ runs = 0
    /\ Len(ran) < MaxStages
    /\ RunScript(TRUE)

\* a user interaction: the script runs again with the chosen selection
Interact ==
    /\ runs > 0
    /\ RunScript(FALSE)

----------------------------------------------------------------------------
(* Specifications *)

Next ==
    \/ RunSampler
    \/ ClassifierStart
    \/ ClassifyRow
    \/ ClassifyRowPropagates
    \/ ClassifierWrite
    \/ DashboardStart

Spec == Init /\ [][Next]_vars

NextSampler == RunSampler

SpecSampler == InitSampler /\ [][NextSampler]_vars

NextDash == DashboardStart \/ Interact

SpecDash == InitDash /\ [][NextDash]_vars

----------------------------------------------------------------------------
(* Properties *)

Labels == {POSITIVE, NEGATIVE, NEUTRAL}

\* the first n characters of s, by position
Prefix(s, n) == [i \in 1..(IF Len(s) < n THEN Len(s) ELSE n) |-> s[i]]

WithoutSentiment(r) == [date |-> r.date, text |-> r.text, club_name |-> r.club_name]

\* C1: when the Classifier has written its output for a file the Sampler
\* produced, the output has the rows of that file, in the same order, each
\* once and each with a sentiment label of the label set.
C1_ClassifierKeepsRows ==
    cls.pc = "done" =>
        LET out == fs[ClassifierOutputPath].rows IN
        /\ Len(out) = Len(cls.input)
        /\ \A i \in DOMAIN out :
              /\ WithoutSentiment(out[i]) = cls.input[i]
              /\ out[i].sentiment \in Labels

C1_Witness ==
    /\ cls.pc = "done"
    /\ Len(cls.input) >= 2
    /\ cls.input[1] # cls.input[2]
    /\ \E i \in DOMAIN cls.input : cls.input[i].date = <<>>

\* every call so far was made on the first 512 characters of its row's text,
\* and every labelled row carries the returned label, or NEUTRAL when the
\* call raised
LabelsFollowCalls ==
    \A i \in DOMAIN cls.labels :
        /\ i \in DOMAIN calls
        /\ calls[i].arg = Prefix(cls.df[i].text, TruncLen)
        /\ cls.labels[i] = IF calls[i].outcome.kind = "return"
                           THEN calls[i].outcome.label ELSE NEUTRAL

WrittenLabels ==
    cls.pc = "done" =>
        /\ Len(fs[ClassifierOutputPath].rows) = Len(cls.labels)
        /\ \A i \in DOMAIN cls.labels :
              fs[ClassifierOutputPath].rows[i].sentiment = cls.labels[i]

\* C2 as stated: whatever the raising calls raise, the batch is never
\* aborted, every row that has been through the service is labelled (NEUTRAL
\* when its call raised), with one call per row.
C2_AnyExceptionIsIsolated ==
    /\ cls.pc # "aborted"
    /\ Len(calls) = Len(cls.labels)
    /\ LabelsFollowCalls
    /\ WrittenLabels

\* C2 amended: a call raising an exception that derives from Exception never
\* aborts the batch and its row is labelled NEUTRAL; the batch is aborted only
\* by a call raising an exception outside Exception, and then writes nothing.
\* Every other row gets the label returned for its first 512 characters, the
\* service is called once per row, and a finished batch writes these labels.
C2_ExceptionIsIsolated ==
    /\ Len(calls) = Len(cls.labels) + (IF cls.pc = "aborted" THEN 1 ELSE 0)
    /\ LabelsFollowCalls
    /\ \A i \in DOMAIN calls :
          calls[i].outcome.kind = "Exception" =>
              i \in DOMAIN cls.labels /\ cls.labels[i] = NEUTRAL
    /\ cls.pc = "aborted" => calls[Len(calls)].outcome.kind = "BaseException"
    /\ WrittenLabels

C2_Witness ==
    /\ cls.pc = "done"
    /\ \E i \in DOMAIN calls : calls[i].outcome.kind = "Exception"
    /\ \E i \in DOMAIN calls :
          /\ calls[i].outcome.kind = "return"
          /\ Len(cls.df[i].text) > TruncLen
          /\ Len(calls[i].arg) = TruncLen

\* a raw row whose text is present and not blank, decided on the raw cell
CleanRaw(r) ==
    /\ r.tweet_full_text \notin NaTokens
    /\ \E i \in DOMAIN r.tweet_full_text : ~IsSpace(r.tweet_full_text[i])

CleanCount(raw) == Cardinality({ j \in DOMAIN raw : CleanRaw(raw[j]) })

\* the Sampler's output rows are cleaned input rows, none twice, none with a
\* missing or blank text
OutputWithinCleaned(raw, out) ==
    LET cleanKeys == { <<raw[j].tweet_full_text, raw[j].user_screen_name>> :
                          j \in { k \in DOMAIN raw : CleanRaw(raw[k]) } }
        outKeys == { <<out[k].text, out[k].club_name>> : k \in DOMAIN out }
    IN /\ outKeys \subseteq cleanKeys
       /\ Cardinality(cleanKeys) = CleanCount(raw) => Cardinality(outKeys) = Len(out)
       /\ \A k \in DOMAIN out :
             out[k].text \notin NaTokens /\ Strip(out[k].text) # <<>>

\* C3 as stated: the output lies within the cleaned rows, has the cleaned
\* row count when the raw input has at most 1500 rows, and exactly 1500 rows
\* when the raw input has more than 1500.
C3_CountByInputRows ==
    writes["Sampler"] # NoPath =>
        LET raw == fs[RawPath].rows
            out == fs[SamplerOutputPath].rows
        IN /\ OutputWithinCleaned(raw, out)
           /\ Len(out) = IF Len(raw) <= SampleSize THEN CleanCount(raw) ELSE SampleSize

\* C3 amended: the output lies within the cleaned rows, has the cleaned row
\* count when at most 1500 rows remain after cleaning, and exactly 1500 rows
\* when more than 1500 remain.
C3_CountByCleanedRows ==
    writes["Sampler"] # NoPath =>
        LET raw == fs[RawPath].rows
            out == fs[SamplerOutputPath].rows
        IN /\ OutputWithinCleaned(raw, out)
           /\ Len(out) = IF CleanCount(raw) <= SampleSize THEN CleanCount(raw)
                         ELSE SampleSize

C3_Witness ==
    /\ writes["Sampler"] # NoPath
    /\ CleanCount(fs[RawPath].rows) > SampleSize
    /\ Len(fs[RawPath].rows) > CleanCount(fs[RawPath].rows)
    /\ Len(fs[SamplerOutputPath].rows) = SampleSize

\* a script run that got past load_data
Loaded == runs > 0 /\ cache.loaded

\* row r satisfies the selection of the last script run
Selected(r) ==
    /\ ui.selected_year.all \/ r.year = <<ui.selected_year.y>>
    /\ ui.selected_club = AllStr \/ r.club_name = ui.selected_club

\* C4: the filtered view is the loaded rows matching the selection on both
\* dimensions, "All" constraining nothing; ("All", "All") gives every loaded
\* row; filtering the view again with the same selection changes nothing.
C4_FilterIsConjunction ==
    Loaded =>
        /\ ui.filtered_df = SelectSeq(cache.df, Selected)
        /\ (ui.selected_year.all /\ ui.selected_club = AllStr) => ui.filtered_df = cache.df
        /\ filtered_df(ui.filtered_df, ui.selected_year, ui.selected_club) = ui.filtered_df

C4_Witness ==
    /\ Loaded
    /\ ~ui.selected_year.all
    /\ ui.selected_club # AllStr
    /\ ui.filtered_df # <<>>
    /\ Len(ui.filtered_df) < Len(cache.df)

\* C5: the labeled file is read at most once, and once the dataset is cached
\* no script run reads the file again or changes the cached dataset; each
\* run's view is the selection applied to that same dataset.
C5_LoadedOnce ==
    [][/\ disk_reads' <= 1
       /\ CacheHit(cache) =>
             /\ cache' = cache
             /\ disk_reads' = disk_reads
             /\ ui'.filtered_df = SelectSeq(cache.df, LAMBDA r :
                    /\ ui'.selected_year.all \/ r.year = <<ui'.selected_year.y>>
                    /\ ui'.selected_club = AllStr \/ r.club_name = ui'.selected_club)]_vars

C5_Witness ==
    /\ runs >= 2
    /\ disk_reads = 1
    /\ ~ui.selected_year.all
    /\ Len(ui.filtered_df) < Len(cache.df)

\* C6: when no loaded row matches the selection, the script run raises
\* nothing and every aggregate of the view is zero or empty, the word cloud
\* being replaced by the notice.
C6_EmptySelectionDegrades ==
    (Loaded /\ \A i \in DOMAIN cache.df : ~Selected(cache.df[i])) =>
        /\ ui.raised = "none"
        /\ ui.total = 0 /\ ui.positive = 0 /\ ui.negative = 0
        /\ ui.sentiment_counts = {}
        /\ ui.trend_df = {}
        /\ ui.club_rank = {}
        /\ ui.ratio_df = {}
        /\ ui.club_counts = {}
        /\ ui.text_data = <<>>
        /\ ui.notice /\ ~ui.cloud.called

C6_Witness ==
    /\ Loaded
    /\ Len(cache.df) >= 2
    /\ ~ui.selected_year.all
    /\ ui.selected_club # AllStr
    /\ \A i \in DOMAIN cache.df : ~Selected(cache.df[i])
    /\ ui.notice

\* the boilerplate tokens as words, lower-cased
BoilerplateWords == { LowerStr(BoilerplateTokens[k]) : k \in DOMAIN BoilerplateTokens }

NotBoilerplate(w) == LowerStr(w) \notin BoilerplateWords

\* C7: the normalized club name consists of the words of the name (split at
\* spaces, underscores and hyphens) that are not boilerplate tokens, each
\* with all of its letters, title-cased.
C7_OnlyTokenWordsRemoved ==
    Loaded =>
        \A i \in DOMAIN cache.df :
            Split(cache.df[i].club_name) =
                Map(SelectSeq(Split(SepToSpace(fs[DashboardInputPath].rows[i].club_name)),
                              NotBoilerplate), Title)

\* C8: when the cleaned word-cloud text of the view is empty, the notice is
\* shown, the generator is not called and nothing is raised.
C8_EmptyCleanedTextHandled ==
    (Loaded /\ CleanCloudText(text_data(ui.filtered_df)) = <<>>) =>
        /\ ui.notice
        /\ ~ui.cloud.called
        /\ ui.raised = "none"

RECURSIVE SumCounts(_)
SumCounts(S) ==
    IF S = {} THEN 0
    ELSE LET g == CHOOSE x \in S : TRUE IN g.count + SumCounts(S \ {g})

\* C9: no bucket of the monthly trend stands for a missing date, and the
\* bucket counts add up to the rows of the view that have a date.
C9_NullDatesNotBucketed ==
    Loaded =>
        /\ \A g \in ui.trend_df : g.month # MonthOf(NaT)
        /\ SumCounts(ui.trend_df) =
              Cardinality({ i \in DOMAIN ui.filtered_df : ui.filtered_df[i].date # NaT })

\* C10: after Sampler, Classifier and Dashboard have run in this order, the
\* Classifier has read the file the Sampler wrote, the Dashboard has read the
\* file the Classifier wrote, and the loaded dataset is that file's content.
C10_StagesChained ==
    ran = <<"Sampler", "Classifier", "Dashboard">> =>
        /\ reads["Classifier"] = writes["Sampler"]
        /\ reads["Dashboard"] = writes["Classifier"]
        /\ cache.df = load_data(fs[writes["Classifier"]].rows)

====
